---- MODULE Spec2Model ----
(***************************************************************************)
(* Sentio Chrome Scraper: the resumable detail workflow of the content     *)
(* script (content/scraper.js), the block flag kept in chrome.storage and  *)
(* the service worker (background/service-worker.js, job-manager.js) that  *)
(* dispatches jobs and raises or clears the block.                         *)
(*                                                                         *)
(* One browser tab on the target site is modelled.  A content script       *)
(* incarnation runs two cooperative flows that interleave at their awaits: *)
(* the start-up flow (initialize -> resumeDetailWorkflowIfAny, position    *)
(* pc) and the message flow (handleExecuteJob -> startDetailWorkflow,      *)
(* position xpc).  A navigation that has been initiated is pending until   *)
(* the page is replaced (PageLoad); the script keeps running until then.   *)
(***************************************************************************)
EXTENDS Integers, Sequences, FiniteSets, TLC

\* ---------------------------------------------------------------- bounds
NumLinks == 2          \* detail links present on the listing page
NumJobs == 2           \* jobs the backend holds
MaxTicks == 1          \* clock ticks the model lets pass
MaxInFlight == 1       \* runtime messages waiting for the service worker
MaxFaults == 1         \* disturbances from outside the workflow in one run
MaxRecoveries == 2     \* recovery transitions counted before the count saturates
NumSelectors == 2      \* candidate selectors the collector tries in order
MaxMatches == 2        \* anchors one selector matches in a document
MaxFallback == 1       \* items the listing extraction yields as the fallback
MaxNextLinks == 1      \* detail links on the page after the pagination link

\* ------------------------------------------------------ program constants
MS_PER_MINUTE == 60000
BLOCK_MIN_MINUTES == 60
BLOCK_SPREAD == 61
DEFAULT_MAX_ITEMS == 10

\* one clock tick: an hour of wall time
TickMs == 60 * MS_PER_MINUTE
MaxNow == MaxTicks * TickMs

\* values Math.floor(Math.random() * 61) takes in the model: both ends of 0..60
RandomDraws == {0, BLOCK_SPREAD - 1}

\* ------------------------------------------------------------------ pages
LISTING == 0                       \* config.url, the anchor
Targets == 1..NumLinks             \* detail pages /ilan/<id>
ELSEWHERE == NumLinks + 1              \* any other page of the site
NoNav == -1                        \* no navigation pending
Pages == {LISTING, ELSEWHERE} \cup Targets

Jobs == 1..NumJobs

\* job.config of the jobs the backend serves: maxItems (0: absent), the
\* directly supplied config.urls (empty: collect from the listing page) and
\* requirePhone
JobMaxItems(j) == IF j = 1 THEN NumLinks - 1 ELSE 0
JobUrls(j) ==
  IF j = 1 THEN <<>>
  ELSE <<[id |-> 1, form |-> "abs"], [id |-> 2, form |-> "rel"]>>
JobRequirePhone(j) == j = 1

NoProgress == [jobId |-> 0, urls |-> <<>>, index |-> 0, results |-> <<>>,
               requirePhone |-> FALSE]

\* what a visit of a target meets: a record with a phone, a record without
\* one, or the quick-skip draw (Math.random() < quickSkipChance)
VisitKinds == {"record", "no_phone", "quick_skip"}

\* the runs explored: every target yields a record, or the first target meets
\* one of the other kinds
VisitScenarios ==
  {[t \in Targets |-> IF t = 1 THEN k ELSE "record"] : k \in VisitKinds}

VARIABLES
  now,            \* Date.now()
  here,           \* window.location of the tab
  pageBlocked,    \* the rendered text matches a block phrase
  pendingNav,     \* destination of the navigation in flight, or NoNav
  tabEvent,       \* a tabs.onUpdated 'complete' event not yet handled
  pc,             \* position of initialize/resumeDetailWorkflowIfAny
  xpc,            \* position of handleExecuteJob/startDetailWorkflow
  progress,       \* the progress object held by the running resume flow
  navUrl,         \* argument of the resume flow's navigateToUrl
  navCaller,      \* where that navigateToUrl returns to
  xUrl,           \* argument of the start flow's navigateToUrl
  isExecuting,    \* SentioContentScript.isExecuting
  csJob,          \* SentioContentScript.currentJob (0: null)
  navInProgress,  \* SentioContentScript.navigationInProgress
  stProgress,     \* chrome.storage.local detail progress
  stBlockedUntil, \* chrome.storage.local blocked_until (0: absent)
  stJobQueue,     \* chrome.storage.local job queue
  blockedUntil,   \* ServiceWorker.blockedUntil
  currentState,   \* ServiceWorker.currentState
  currentJob,     \* JobManager.currentJob (0: null)
  jobQueue,       \* JobManager.jobQueue
  submittedResults, \* ServiceWorker.submittedResults
  pollingAlarm,   \* the polling alarm exists
  apiResults,     \* results the backend has received, per job
  toSW,           \* runtime messages on their way to the service worker
  toCS,           \* tab messages on their way to the content script
  visit,          \* per target: what the visit that completes it meets
  submitting,     \* per job: handleJobCompleted calls awaiting the submission
  pollPc,         \* where a pollForJobs call that has begun stands
  collectIn,      \* the listing document and job configuration a queue is built from
  collectOut,     \* the target queue built from collectIn (<<>> before it is built)
  startTarget,    \* history: the target pending when the incarnation began on
                  \* the listing, unblocked (NoNav otherwise)
  recoveries,     \* history: recovery transitions initiated since the tab was
                  \* last on the listing or on the expected target
  faults,         \* disturbances so far
  restarted,      \* history: the script was torn down with the cursor mid-queue
  resumedClear,   \* history: a manual resume was handled, no producer since
  undelivered,    \* history: the job whose execute message could not be
                  \* delivered when it was last tried (0: none)
  failure,        \* history: the failure the content script met last ("none": none yet)
  callArgs,       \* the arguments a function is applied to on its own (NoCall: none)
  callResult      \* what that application returned (NoCall before it returns)

vars == <<now, here, pageBlocked, pendingNav, tabEvent, pc, xpc, progress,
          navUrl, navCaller, xUrl, isExecuting, csJob, navInProgress,
          stProgress, stBlockedUntil, stJobQueue, blockedUntil, currentState,
          currentJob, jobQueue, submittedResults, pollingAlarm, apiResults,
          toSW, toCS, visit, submitting, pollPc, undelivered, failure, callArgs, callResult, collectIn, collectOut, startTarget, recoveries, faults, restarted, resumedClear>>

tabVars == <<here, pageBlocked, pendingNav, tabEvent>>
flowVars == <<pc, progress, navUrl, navCaller>>
xVars == <<xpc, xUrl, isExecuting, csJob, navInProgress>>
swVars == <<blockedUntil, currentState, currentJob, jobQueue, stJobQueue,
            submittedResults, pollingAlarm, apiResults>>
histVars == <<visit, submitting, pollPc, undelivered, failure, callArgs, callResult, collectIn, collectOut, startTarget, recoveries, faults, restarted, resumedClear>>

\* ------------------------------------------------------- humanize settings
\* the defaults of withHumanizeDefaults and computeDwellMs
READING_SPEED_WPM == 220
MIN_PAGE_DWELL == 12000
MAX_PAGE_DWELL == 25000
BREAK_AFTER_N == 6
SHORT_BREAK_MIN == 30000
SHORT_BREAK_MAX == 90000
LONG_BREAK_AFTER == 13
LONG_BREAK_MIN == 180000
LONG_BREAK_MAX == 420000

\* a field the configuration does not carry (undefined)
Absent == -1

\* v ?? d
Nullish(v, d) == IF v = Absent THEN d ELSE v

\* a configuration without any humanize field
NoHumanize ==
  [readingSpeedWpm |-> Absent, minPageDwell |-> Absent, maxPageDwell |-> Absent,
   breakAfterN |-> Absent, shortBreakMin |-> Absent, shortBreakMax |-> Absent,
   longBreakAfter |-> Absent, longBreakMin |-> Absent, longBreakMax |-> Absent]

withHumanizeDefaults(h) ==
  [readingSpeedWpm |-> Nullish(h.readingSpeedWpm, READING_SPEED_WPM),
   minPageDwell |-> Nullish(h.minPageDwell, MIN_PAGE_DWELL),
   maxPageDwell |-> Nullish(h.maxPageDwell, MAX_PAGE_DWELL),
   breakAfterN |-> Nullish(h.breakAfterN, BREAK_AFTER_N),
   shortBreakMin |-> Nullish(h.shortBreakMin, SHORT_BREAK_MIN),
   shortBreakMax |-> Nullish(h.shortBreakMax, SHORT_BREAK_MAX),
   longBreakAfter |-> Nullish(h.longBreakAfter, LONG_BREAK_AFTER),
   longBreakMin |-> Nullish(h.longBreakMin, LONG_BREAK_MIN),
   longBreakMax |-> Nullish(h.longBreakMax, LONG_BREAK_MAX)]

\* config.humanize of the jobs: job 2 asks for a break after every item
JobHumanize(j) == IF j = 2 THEN [NoHumanize EXCEPT !.breakAfterN = 1] ELSE NoHumanize

\* progress.humanize of a workflow
HumanizeOf(p) == withHumanizeDefaults(JobHumanize(p.jobId))

\* what the routine sleeps between persisting a step with n items processed
\* and window.history.back(): the HUD update is all that lies between
SleepAfterStep(hc, n) == 0

\* no function is applied on its own
NoCall == [fn |-> "none"]

\* a disturbance: counted against the budget of the run
Fault == faults < MaxFaults /\ faults' = faults + 1

\* ---------------------------------------------------------------- helpers
Msg(t, j, r, d) == [type |-> t, job |-> j, reason |-> r, data |-> d]

\* chrome.runtime.sendMessage is best effort: a message that finds the
\* channel full is not delivered
SendSW(msgs, m) == IF Cardinality(msgs) < MaxInFlight THEN msgs \cup {m} ELSE msgs

\* isGloballyBlocked: until && Date.now() < until, on the stored value
isGloballyBlocked == stBlockedUntil # 0 /\ now < stBlockedUntil

\* ServiceWorker.isBlocked: on the in-memory value
isBlocked == blockedUntil # 0 /\ now < blockedUntil

\* isLikelyBlockedPage
isLikelyBlockedPage == pageBlocked

\* reason of the BLOCK_DETECTED sent by the early checks
EarlyReason == IF isGloballyBlocked THEN "Global block" ELSE "DOM block"

\* isSameDetail: both locators name the same /ilan/<id>
isSameDetail(a, b) == a \in Targets /\ a = b

\* a slice that keeps every element
SliceAll(s, n) == s

\* urls.slice(0, maxItems)
Slice(s, n) == IF Len(s) <= n THEN s ELSE SubSeq(s, 1, n)

\* config.maxItems || 10
EffectiveMaxItems(maxItems) == IF maxItems = 0 THEN DEFAULT_MAX_ITEMS ELSE maxItems
MaxItemsOf(j) == EffectiveMaxItems(JobMaxItems(j))

\* an href attribute as the document or the job configuration carries it: the
\* ad it names, written site-relative ("/ilan/<id>") or absolute
HrefForms == {"rel", "abs"}
RawHrefs == [id : Targets, form : HrefForms]

\* href.startsWith('http') ? href : 'https://www.sahibinden.com' + href
makeAbsolute(href) == href.id

\* JobExecutor.normalizeUrl: '/path' gets the site origin, 'http...' is kept
normalizeUrl(href) == href.id

\* if (!urls.includes(url)) urls.push(url)
PushNew(urls, url) ==
  IF \E i \in 1..Len(urls) : urls[i] = url THEN urls ELSE Append(urls, url)

\* the loop over the nodes one selector matches
RECURSIVE CollectNodes(_, _)
CollectNodes(nodes, urls) ==
  IF nodes = <<>> THEN urls
  ELSE CollectNodes(Tail(nodes), PushNew(urls, makeAbsolute(Head(nodes))))

\* the loop over the selectors, every selector adding to the same list
RECURSIVE CollectMerging(_, _)
CollectMerging(sels, urls) ==
  IF sels = <<>> THEN urls
  ELSE CollectMerging(Tail(sels), CollectNodes(Head(sels), urls))

\* a loop over the selectors that never stops early
CollectAllSelectors(sels) == CollectMerging(sels, <<>>)

\* the loop over the selectors: if (urls.length) break
RECURSIVE CollectSelectors(_)
CollectSelectors(sels) ==
  IF sels = <<>> THEN <<>>
  ELSE LET urls == CollectNodes(Head(sels), <<>>) IN
       IF Len(urls) > 0 THEN urls ELSE CollectSelectors(Tail(sels))

\* the fallback: the urls of extractListingsFromPage, normalized, unique
RECURSIVE CollectItems(_, _)
CollectItems(items, urls) ==
  IF items = <<>> THEN urls
  ELSE CollectItems(Tail(items), PushNew(urls, normalizeUrl(Head(items))))

\* collectDetailLinks on a document: what each selector matches, in order,
\* and what the listing extraction yields
CollectLinks(doc) ==
  LET urls == CollectSelectors(doc.selectors) IN
  IF Len(urls) > 0 THEN urls ELSE CollectItems(doc.fallback, <<>>)

\* the document of the page the tab shows: the listing has one title link per
\* ad matched by the first selector, the first ad linked a second time, and a
\* thumbnail link to the first ad matched by the last selector
ListingDoc ==
  [selectors |->
     [k \in 1..NumSelectors |->
        IF k = 1
        THEN [i \in 1..NumLinks |-> [id |-> i, form |-> "rel"]]
             \o <<[id |-> 1, form |-> "abs"]>>
        ELSE IF k = NumSelectors THEN <<[id |-> 1, form |-> "rel"]>>
        ELSE <<>>],
   fallback |-> <<>>]
EmptyDoc == [selectors |-> [k \in 1..NumSelectors |-> <<>>], fallback |-> <<>>]
DocOf(page) == IF page = LISTING THEN ListingDoc ELSE EmptyDoc

\* collectDetailLinks: the unique links of the page, in document order
collectDetailLinks(page) == CollectLinks(DocOf(page))

\* config.urls.map(u => normalizeUrl(u))
RECURSIVE MapNormalize(_)
MapNormalize(hrefs) ==
  IF hrefs = <<>> THEN <<>>
  ELSE <<normalizeUrl(Head(hrefs))>> \o MapNormalize(Tail(hrefs))

\* the queue startDetailWorkflow builds: config.urls when given, else the
\* links collected from the document; cut to config.maxItems || 10
TargetQueue(urls, doc, maxItems) ==
  Slice(IF Len(urls) > 0 THEN MapNormalize(urls) ELSE CollectLinks(doc),
        EffectiveMaxItems(maxItems))

\* the progress startDetailWorkflow persists
StartProgress(j, page) ==
  [jobId |-> j,
   urls |-> TargetQueue(JobUrls(j), DocOf(page), JobMaxItems(j)),
   index |-> 0,
   results |-> <<>>,
   requirePhone |-> JobRequirePhone(j)]

\* an extraction that returns the record whether or not it has a phone
extractDetailDataAnyPhone(requirePhone, kind) == TRUE

\* extractDetailData: null when requirePhone is set and no phone is recovered
extractDetailData(requirePhone, kind) == ~(requirePhone /\ kind = "no_phone")

\* an extraction that is attempted whatever the quick-skip draw
DetailOfNoSkip(p, kind) == extractDetailData(p.requirePhone, kind)

\* the quick-skip draw, else the extraction: TRUE when a record comes back
DetailOf(p, kind) ==
  IF kind = "quick_skip" THEN FALSE ELSE extractDetailData(p.requirePhone, kind)

\* a cursor that advances past the target after the one just visited
NextIndexSkipping(i) == i + 2

\* a cursor that stays where it is
NextIndexStuck(i) == i

\* const nextIndex = index + 1
NextIndex(i) == i + 1

\* if (detail) results.push(detail); persist {...progress, results, index: nextIndex}
AfterStep(p, detail, url) ==
  [p EXCEPT !.results = IF detail THEN Append(p.results, url) ELSE p.results,
            !.index = NextIndex(p.index)]

\* a workflow that still has a target to visit
WorkflowPending(p) == p.jobId # 0 /\ p.index < Len(p.urls)

BlockMsg(reason) == Msg("BLOCK_DETECTED", 0, reason, <<>>)

\* a load that hands back the stored workflow with its cursor rewound
loadDetailProgressRewound == [stProgress EXCEPT !.index = 0]

\* loadDetailProgress: the stored object as it is
loadDetailProgress == stProgress

\* a persist that leaves the stored progress as it was
persistNothing(p) == stProgress

\* persistDetailProgress: the object chrome.storage.local holds afterwards
persistDetailProgress(p) == p

\* ------------------------------------------- content script: start-up flow
\* resumeDetailWorkflowIfAny has returned: its locals are gone
Returned ==
  /\ progress' = NoProgress
  /\ navUrl' = NoNav
  /\ navCaller' = "resume"

\* initialize: the early global/DOM block check
InitCheck ==
  /\ pc = "init"
  /\ IF isGloballyBlocked \/ isLikelyBlockedPage
       THEN /\ toSW' = SendSW(toSW, BlockMsg(EarlyReason))
            /\ stProgress' = NoProgress
            /\ pc' = "done"
       ELSE /\ pc' = "load"
            /\ UNCHANGED <<toSW, stProgress>>
  /\ UNCHANGED <<now, tabVars, progress, navUrl, navCaller, xVars, stBlockedUntil,
                 swVars, toCS, histVars>>

\* resumeDetailWorkflowIfAny up to the re-persist of the loaded progress
ResumeLoad ==
  /\ pc = "load"
  /\ IF loadDetailProgress.jobId = 0 \/ Len(loadDetailProgress.urls) = 0
       THEN /\ pc' = "done"
            /\ UNCHANGED <<toSW, stProgress, progress>>
       ELSE IF isGloballyBlocked \/ isLikelyBlockedPage
         THEN /\ toSW' = SendSW(toSW, BlockMsg(EarlyReason))
              /\ stProgress' = NoProgress
              /\ pc' = "done"
              /\ UNCHANGED progress
         ELSE /\ progress' = loadDetailProgress
              /\ stProgress' = persistDetailProgress(loadDetailProgress)
              /\ pc' = "route"
              /\ UNCHANGED toSW
  /\ UNCHANGED <<now, tabVars, navUrl, navCaller, xVars, stBlockedUntil,
                 swVars, toCS, histVars>>

\* resumeDetailWorkflowIfAny: finished, on the target, on the listing, elsewhere
Route ==
  /\ pc = "route"
  /\ IF progress.index >= Len(progress.urls)
       THEN /\ pc' = "final_send"
            /\ UNCHANGED <<toSW, progress, navUrl, navCaller>>
       ELSE LET currentTarget == progress.urls[progress.index + 1] IN
         IF isSameDetail(here, currentTarget)
           THEN IF isLikelyBlockedPage
             THEN /\ toSW' = SendSW(toSW, BlockMsg("Blocked on detail"))
                  /\ pc' = "done"
                  /\ Returned
             ELSE /\ pc' = "dwell"
                  /\ UNCHANGED <<toSW, progress, navUrl, navCaller>>
         ELSE IF here = LISTING
           THEN IF isLikelyBlockedPage
             THEN /\ toSW' = SendSW(toSW, BlockMsg("Blocked on listing"))
                  /\ pc' = "done"
                  /\ Returned
             ELSE /\ navUrl' = currentTarget
                  /\ navCaller' = "resume"
                  /\ pc' = "nav_check"
                  /\ UNCHANGED <<toSW, progress>>
         ELSE IF isLikelyBlockedPage
             THEN /\ toSW' = SendSW(toSW, BlockMsg("Blocked: unexpected page"))
                  /\ pc' = "done"
                  /\ Returned
             ELSE /\ navUrl' = LISTING
                  /\ navCaller' = "resume"
                  /\ pc' = "nav_check"
                  /\ UNCHANGED <<toSW, progress>>
  /\ UNCHANGED <<now, tabVars, xVars, stProgress, stBlockedUntil,
                 swVars, toCS, histVars>>

\* updateHud, were it to pass on what the DOM write throws while the HUD is
\* out of order: the routine's outer catch ends the routine
AfterHudThrowing(next) == IF failure = "notification" THEN "caught" ELSE next

\* updateHud: a status notification for the HUD; its own catch swallows a
\* failed DOM write, and the caller goes on to what comes next either way
AfterHud(next) == next

\* on the expected detail, after the dwell: quick-skip or extract, then
\* persist the advanced progress and notify the HUD
Extract ==
  /\ pc = "dwell"
  /\ LET p == AfterStep(progress, DetailOf(progress, visit[here]), here) IN
       /\ progress' = p
       /\ stProgress' = persistDetailProgress(p)
       /\ pc' = AfterHud(IF p.index < Len(p.urls) THEN "go_back" ELSE "final_send")
  /\ UNCHANGED <<now, tabVars, navUrl, navCaller, xVars, stBlockedUntil,
                 swVars, toSW, toCS, histVars>>

\* goBackToListing: window.history.back(); where it leads depends on the
\* tab's history (NoNav: there is no entry to go back to)
GoBack ==
  /\ pc = "go_back"
  /\ \E dest \in {LISTING, ELSEWHERE, NoNav} :
       /\ pendingNav' = IF dest = NoNav THEN pendingNav ELSE dest
       /\ IF dest = LISTING THEN faults' = faults ELSE Fault
  /\ pc' = "back_fallback"
  /\ UNCHANGED <<now, here, pageBlocked, tabEvent, progress, navUrl, navCaller,
                 xVars, stProgress, stBlockedUntil, swVars, toSW, toCS, visit, submitting, pollPc, undelivered, failure, callArgs, callResult, collectIn, collectOut, startTarget, recoveries,
                 restarted, resumedClear>>

\* goBackToListing: the direct navigation that follows, unless globally blocked
BackFallback ==
  /\ pc = "back_fallback"
  /\ IF isGloballyBlocked
       THEN /\ pc' = "after_back"
            /\ UNCHANGED <<navUrl, navCaller>>
       ELSE /\ navUrl' = LISTING
            /\ navCaller' = "goback"
            /\ pc' = "nav_check"
  /\ UNCHANGED <<now, tabVars, progress, xVars, stProgress, stBlockedUntil,
                 swVars, toSW, toCS, histVars>>

\* after goBackToListing: scroll, short delay, navigateToUrl(nextUrl)
AfterBack ==
  /\ pc = "after_back"
  /\ navUrl' = progress.urls[progress.index + 1]
  /\ navCaller' = "resume"
  /\ pc' = "nav_check"
  /\ UNCHANGED <<now, tabVars, progress, xVars, stProgress, stBlockedUntil,
                 swVars, toSW, toCS, histVars>>

\* where navigateToUrl returns to
NavReturn(caller) == IF caller = "goback" THEN "after_back" ELSE "done"

\* navigateToUrl: the block check
NavCheck ==
  /\ pc = "nav_check"
  /\ IF isGloballyBlocked \/ isLikelyBlockedPage
       THEN /\ toSW' = SendSW(toSW, BlockMsg(EarlyReason))
            /\ pc' = NavReturn(navCaller)
            /\ IF NavReturn(navCaller) = "done" THEN Returned
               ELSE UNCHANGED <<progress, navUrl, navCaller>>
       ELSE /\ pc' = "nav_go"
            /\ UNCHANGED <<toSW, progress, navUrl, navCaller>>
  /\ UNCHANGED <<now, tabVars, xVars, stProgress,
                 stBlockedUntil, swVars, toCS, histVars>>

\* navigateToUrl: after the random delay, window.location.href = url
NavGo ==
  /\ pc = "nav_go"
  /\ pendingNav' = navUrl
  /\ navInProgress' = TRUE
  /\ pc' = NavReturn(navCaller)
  /\ IF NavReturn(navCaller) = "done" THEN Returned
     ELSE UNCHANGED <<progress, navUrl, navCaller>>
  /\ recoveries' = IF navUrl = LISTING /\ navCaller = "resume"
                      /\ recoveries < MaxRecoveries
                   THEN recoveries + 1
                   ELSE recoveries
  /\ UNCHANGED <<now, here, pageBlocked, tabEvent,
                 xpc, xUrl, isExecuting, csJob, stProgress, stBlockedUntil,
                 swVars, toSW, toCS, visit, submitting, pollPc, undelivered, failure, callArgs, callResult, collectIn, collectOut, startTarget,
                 faults, restarted, resumedClear>>

\* finalize: JOB_COMPLETED with the accumulated results
FinalSend ==
  /\ pc = "final_send"
  /\ toSW' = SendSW(toSW, Msg("JOB_COMPLETED", progress.jobId, "", progress.results))
  /\ pc' = "final_clear"
  /\ UNCHANGED <<now, tabVars, progress, navUrl, navCaller, xVars, stProgress,
                 stBlockedUntil, swVars, toCS, histVars>>

\* finalize: clearDetailProgress
FinalClear ==
  /\ pc = "final_clear"
  /\ stProgress' = NoProgress
  /\ pc' = "done"
  /\ Returned
  /\ UNCHANGED <<now, tabVars, xVars, stBlockedUntil, swVars, toSW, toCS,
                 histVars>>

\* ------------------------------------------- content script: message flow
\* handleExecuteJob up to startDetailWorkflow's persist.  A request that
\* arrives while an earlier start flow is still running but no longer marked
\* executing waits until that flow has ended.
HandleExecuteJob ==
  \E m \in toCS :
    /\ m.type = "EXECUTE_JOB"
    /\ toCS' = toCS \ {m}
    /\ IF isExecuting
         THEN \* 'Another job is already executing': catch, finally
              /\ toSW' = IF navInProgress THEN toSW
                         ELSE SendSW(toSW, Msg("JOB_FAILED", csJob, "", <<>>))
              /\ isExecuting' = FALSE
              /\ csJob' = 0
              /\ UNCHANGED <<xpc, xUrl, stProgress>>
         ELSE /\ xpc = "none"
              /\ IF isGloballyBlocked \/ isLikelyBlockedPage
                   THEN /\ toSW' = SendSW(toSW, BlockMsg(EarlyReason))
                        /\ UNCHANGED <<xpc, xUrl, stProgress, isExecuting, csJob>>
                   ELSE LET p == StartProgress(m.job, here)
                            started == SendSW(toSW, Msg("JOB_STARTED", m.job, "", <<>>))
                        IN /\ stProgress' = persistDetailProgress(p)
                           /\ IF Len(p.urls) > 0
                                THEN /\ toSW' = started
                                     /\ isExecuting' = TRUE
                                     /\ csJob' = m.job
                                     /\ xUrl' = p.urls[1]
                                     /\ xpc' = "nav_check"
                                ELSE /\ toSW' = SendSW(started,
                                                  Msg("JOB_COMPLETED", m.job, "", <<>>))
                                     /\ UNCHANGED <<xpc, xUrl, isExecuting, csJob>>
    /\ UNCHANGED <<now, tabVars, flowVars, navInProgress, stBlockedUntil, swVars,
                   histVars>>

\* navigateToUrl(slice[0]): the block check; when blocked the call returns
\* and handleExecuteJob's finally resets the execution state
XNavCheck ==
  /\ xpc = "nav_check"
  /\ IF isGloballyBlocked \/ isLikelyBlockedPage
       THEN /\ toSW' = SendSW(toSW, BlockMsg(EarlyReason))
            /\ xpc' = "none"
            /\ xUrl' = NoNav
            /\ isExecuting' = FALSE
            /\ csJob' = 0
       ELSE /\ xpc' = "nav_go"
            /\ UNCHANGED <<toSW, xUrl, isExecuting, csJob>>
  /\ UNCHANGED <<now, tabVars, flowVars, navInProgress, stProgress,
                 stBlockedUntil, swVars, toCS, histVars>>

\* navigateToUrl(slice[0]): after the random delay, window.location.href = url
XNavGo ==
  /\ xpc = "nav_go"
  /\ pendingNav' = xUrl
  /\ navInProgress' = TRUE
  /\ xpc' = "ready"
  /\ UNCHANGED <<now, here, pageBlocked, tabEvent, flowVars, xUrl, isExecuting,
                 csJob, stProgress, stBlockedUntil, swVars, toSW, toCS, histVars>>

\* waitForPageReady resolved on the old page: handleExecuteJob's finally
XFinish ==
  /\ xpc = "ready"
  /\ xpc' = "none"
  /\ xUrl' = NoNav
  /\ isExecuting' = FALSE
  /\ csJob' = 0
  /\ UNCHANGED <<now, tabVars, flowVars, navInProgress, stProgress,
                 stBlockedUntil, swVars, toSW, toCS, histVars>>

\* handleCancelJob
HandleCancelJob ==
  \E m \in toCS :
    /\ m.type = "CANCEL_JOB"
    /\ toCS' = toCS \ {m}
    /\ IF ~isExecuting
         THEN UNCHANGED <<stProgress, isExecuting, csJob>>
         ELSE /\ stProgress' = NoProgress
              /\ isExecuting' = FALSE
              /\ csJob' = 0
    /\ UNCHANGED <<now, tabVars, flowVars, xpc, xUrl, navInProgress,
                   stBlockedUntil, swVars, toSW, histVars>>

\* --------------------------------------------------------- tab and clock
\* a fresh incarnation of the content script on page `land`
NewIncarnation(land, pb) ==
  /\ here' = land
  /\ pageBlocked' = pb
  /\ pendingNav' = NoNav
  /\ tabEvent' = TRUE
  /\ pc' = "init"
  /\ progress' = NoProgress
  /\ navUrl' = NoNav
  /\ navCaller' = "resume"
  /\ xpc' = "none"
  /\ xUrl' = NoNav
  /\ isExecuting' = FALSE
  /\ csJob' = 0
  /\ navInProgress' = FALSE
  /\ recoveries' = IF \/ land = LISTING
                      \/ /\ WorkflowPending(stProgress)
                         /\ isSameDetail(land, stProgress.urls[stProgress.index + 1])
                   THEN 0
                   ELSE recoveries
  /\ startTarget' = IF /\ land = LISTING
                       /\ ~pb
                       /\ ~isGloballyBlocked
                       /\ WorkflowPending(stProgress)
                    THEN stProgress.urls[stProgress.index + 1]
                    ELSE NoNav

\* the pending navigation commits: the old page and its script are gone; the
\* tab lands on the requested page or is redirected elsewhere
PageLoad ==
  /\ pendingNav # NoNav
  /\ NewIncarnation(pendingNav, FALSE)
  /\ UNCHANGED <<now, stProgress, stBlockedUntil, swVars, toSW, toCS, visit, submitting, pollPc, undelivered, failure, callArgs, callResult,
                 collectIn, collectOut, faults, restarted, resumedClear>>

\* the pending navigation commits, but the tab is redirected elsewhere or the
\* page served carries a block phrase
PageLoadAstray ==
  /\ pendingNav # NoNav
  /\ \E land \in {pendingNav, ELSEWHERE}, pb \in BOOLEAN :
       /\ land # pendingNav \/ pb
       /\ NewIncarnation(land, pb)
  /\ Fault
  /\ UNCHANGED <<now, stProgress, stBlockedUntil, swVars, toSW, toCS, visit, submitting, pollPc, undelivered, failure, callArgs, callResult, collectIn, collectOut,
                 restarted, resumedClear>>

\* the recovery transition commits, and the site sends the tab to the other
\* page once more
PageLoadAstrayAgain ==
  /\ here = ELSEWHERE
  /\ pendingNav = LISTING
  /\ NewIncarnation(ELSEWHERE, FALSE)
  /\ UNCHANGED <<now, stProgress, stBlockedUntil, swVars, toSW, toCS, visit, submitting, pollPc, undelivered, failure, callArgs, callResult,
                 collectIn, collectOut, faults, restarted, resumedClear>>

\* the executing process is torn down and restarted on the same page
Reload ==
  /\ NewIncarnation(here, pageBlocked)
  /\ restarted' = (restarted \/ (WorkflowPending(stProgress) /\ stProgress.index > 0))
  /\ Fault
  /\ UNCHANGED <<now, stProgress, stBlockedUntil, swVars, toSW, toCS, visit, submitting, pollPc, undelivered, failure, callArgs, callResult, collectIn, collectOut,
                 resumedClear>>

\* the rendered text of the current page starts to match a block phrase
PageTurnsBlocked ==
  /\ ~pageBlocked
  /\ pageBlocked' = TRUE
  /\ Fault
  /\ UNCHANGED <<now, here, pendingNav, tabEvent, flowVars, xVars, stProgress,
                 stBlockedUntil, swVars, toSW, toCS, visit, submitting, pollPc, undelivered, failure, callArgs, callResult, collectIn, collectOut, startTarget, recoveries, restarted, resumedClear>>

Tick ==
  /\ now + TickMs <= MaxNow
  /\ now' = now + TickMs
  /\ UNCHANGED <<tabVars, flowVars, xVars, stProgress, stBlockedUntil, swVars,
                 toSW, toCS, histVars>>

\* ---------------------------------------------------------- service worker
RECURSIVE SortedIds(_)
SortedIds(S) ==
  IF S = {} THEN <<>>
  ELSE LET m == CHOOSE a \in S : \A b \in S : a <= b
       IN <<m>> \o SortedIds(S \ {m})

QueueIds(q) == {q[i].id : i \in 1..Len(q)}
StatusOf(q, id) == (CHOOSE i \in 1..Len(q) : q[i].id = id)

\* queueJobs: append the jobs not yet queued as pending, sort (older first)
queueJobs(q, fetched) ==
  LET ids == SortedIds(QueueIds(q) \cup fetched)
  IN [i \in 1..Len(ids) |->
        IF ids[i] \in QueueIds(q) THEN q[StatusOf(q, ids[i])]
        ELSE [id |-> ids[i], status |-> "pending"]]

\* getPendingJobs: the in-memory queue, reloaded from storage when empty
LoadedQueue(q, stored) == IF Len(q) = 0 THEN stored ELSE q
Pending(q) == SelectSeq(q, LAMBDA e : e.status = "pending")

\* executeJob: job.status = RUNNING
MarkRunning(q, id) ==
  [i \in 1..Len(q) |-> IF q[i].id = id THEN [q[i] EXCEPT !.status = "running"] ELSE q[i]]

\* removeJobFromQueue
removeJobFromQueue(q, id) == SelectSeq(q, LAMBDA e : e.id # id)

\* the backend's pending jobs: those it has no result for
ApiPending == {j \in Jobs : apiResults[j] = 0}

ExecMsg(j) == Msg("EXECUTE_JOB", j, "", <<>>)
CancelMsg == Msg("CANCEL_JOB", 0, "", <<>>)

\* enterBlock: 60 + Math.floor(Math.random() * 61) minutes from now
BlockMinutes(draw) == BLOCK_MIN_MINUTES + draw
BlockUntil(t, draw) == t + BlockMinutes(draw) * MS_PER_MINUTE

enterBlock(draw) ==
  /\ blockedUntil' = BlockUntil(now, draw)
  /\ stBlockedUntil' = BlockUntil(now, draw)
  /\ pollingAlarm' = FALSE
  /\ currentState' = "idle"
  /\ resumedClear' = FALSE

\* a clearBlock that forgets the stored timestamp
clearBlockInMemoryOnly ==
  /\ blockedUntil' = 0
  /\ stBlockedUntil' = stBlockedUntil
  /\ pollingAlarm' = TRUE

\* clearBlock
clearBlock ==
  /\ blockedUntil' = 0
  /\ stBlockedUntil' = 0
  /\ pollingAlarm' = TRUE

\* pollForJobs past its guards, with tryExecuteNextJob: the queue, the current
\* job and the tab messages it leaves
PollEffect(q, cur, fetched) ==
  LET q1 == queueJobs(q, fetched)
      try == cur = 0 /\ Len(Pending(q1)) > 0 /\ pendingNav = NoNav
      job == Pending(q1)[1].id
  IN IF fetched = {}
       THEN [queue |-> q, stored |-> stJobQueue, cur |-> cur, toCS |-> toCS]
       ELSE IF try
         THEN [queue |-> MarkRunning(q1, job), stored |-> MarkRunning(q1, job),
               cur |-> job, toCS |-> toCS \cup {ExecMsg(job)}]
         ELSE [queue |-> q1, stored |-> q1, cur |-> cur, toCS |-> toCS]

\* fetchPendingJobs: the backend's answer, or nothing when the request fails
Fetched == {ApiPending, {}}

pollForJobs(force) ==
  /\ ~isBlocked
  /\ force \/ currentState = "idle"
  /\ \E fetched \in Fetched :
     LET r == PollEffect(jobQueue, currentJob, fetched) IN
       /\ jobQueue' = r.queue
       /\ stJobQueue' = r.stored
       /\ currentJob' = r.cur
       /\ toCS' = r.toCS
  /\ currentState' = "idle"
  /\ UNCHANGED <<now, tabVars, flowVars, xVars, stProgress, stBlockedUntil,
                 blockedUntil, submittedResults, pollingAlarm, apiResults, toSW,
                 histVars>>

\* handleAlarm: the polling alarm fires
PollAlarm == pollingAlarm /\ pollForJobs(FALSE)

\* FORCE_POLL from the popup
ForcePoll == currentState # "idle" /\ pollForJobs(TRUE)

\* handleTabUpdate for a 'complete' event of the tab
HandleTabUpdate ==
  /\ tabEvent
  /\ tabEvent' = FALSE
  /\ IF isBlocked \/ currentState = "executing"
       THEN UNCHANGED <<jobQueue, stJobQueue, currentJob, toCS, undelivered>>
       ELSE LET q == LoadedQueue(jobQueue, stJobQueue) IN
         IF Len(Pending(q)) > 0 /\ currentJob = 0
           THEN LET job == Pending(q)[1].id IN
                /\ jobQueue' = MarkRunning(q, job)
                /\ stJobQueue' = MarkRunning(q, job)
                /\ currentJob' = job
                /\ \E delivered \in {TRUE, pendingNav = NoNav} :
                     /\ toCS' = IF delivered THEN toCS \cup {ExecMsg(job)} ELSE toCS
                     /\ undelivered' = IF delivered THEN 0 ELSE job
           ELSE /\ jobQueue' = q
                /\ UNCHANGED <<stJobQueue, currentJob, toCS, undelivered>>
  /\ UNCHANGED <<now, here, pageBlocked, pendingNav, flowVars, xVars, stProgress,
                 stBlockedUntil, blockedUntil, currentState, submittedResults,
                 pollingAlarm, apiResults, toSW, visit, submitting, pollPc, failure, callArgs,
                 callResult, collectIn, collectOut, startTarget, recoveries,
                 faults, restarted, resumedClear>>

\* handleJobStarted
HandleJobStarted ==
  \E m \in toSW :
    /\ m.type = "JOB_STARTED"
    /\ toSW' = toSW \ {m}
    /\ currentState' = IF isBlocked THEN currentState ELSE "executing"
    /\ UNCHANGED <<now, tabVars, flowVars, xVars, stProgress, stBlockedUntil,
                   blockedUntil, currentJob, jobQueue, stJobQueue,
                   submittedResults, pollingAlarm, apiResults, toCS, histVars>>

\* handleJobCompleted with JobManager.handleJobCompletion; the submission to
\* the backend succeeds or fails
HandleJobCompleted ==
  \E m \in toSW :
    /\ m.type = "JOB_COMPLETED"
    /\ toSW' = toSW \ {m}
    /\ IF m.job \in submittedResults
         THEN UNCHANGED <<currentState, currentJob, jobQueue, stJobQueue,
                          submittedResults, apiResults>>
         ELSE /\ currentState' = "idle"
              /\ submittedResults' = submittedResults \cup {m.job}
              /\ IF currentJob = 0 \/ currentJob # m.job
                   THEN UNCHANGED <<currentJob, jobQueue, stJobQueue, apiResults>>
                   ELSE /\ currentJob' = 0
                        /\ jobQueue' = removeJobFromQueue(jobQueue, m.job)
                        /\ stJobQueue' = removeJobFromQueue(jobQueue, m.job)
                        /\ \E apiOk \in BOOLEAN :
                             apiResults' = IF apiOk
                               THEN [apiResults EXCEPT ![m.job] = 1 + @]
                               ELSE apiResults
    /\ UNCHANGED <<now, tabVars, flowVars, xVars, stProgress, stBlockedUntil,
                   blockedUntil, pollingAlarm, toCS, histVars>>

\* handleJobFailed with JobManager.handleJobFailure
HandleJobFailed ==
  \E m \in toSW :
    /\ m.type = "JOB_FAILED"
    /\ toSW' = toSW \ {m}
    /\ currentState' = "idle"
    /\ IF currentJob # 0 /\ currentJob = m.job
         THEN /\ currentJob' = 0
              /\ jobQueue' = removeJobFromQueue(jobQueue, m.job)
              /\ stJobQueue' = removeJobFromQueue(jobQueue, m.job)
         ELSE UNCHANGED <<currentJob, jobQueue, stJobQueue>>
    /\ UNCHANGED <<now, tabVars, flowVars, xVars, stProgress, stBlockedUntil,
                   blockedUntil, submittedResults, pollingAlarm, apiResults, toCS,
                   histVars>>

\* reason.includes('dom') || 'unexpected' || 'listing' || 'detail'
DomOnly(reason) ==
  reason \in {"DOM block", "Blocked on detail", "Blocked on listing",
              "Blocked: unexpected page"}

\* handleMessage, case BLOCK_DETECTED
HandleBlockDetected ==
  \E m \in toSW :
    /\ m.type = "BLOCK_DETECTED"
    /\ toSW' = toSW \ {m}
    /\ IF (currentState = "executing" \/ currentJob # 0) /\ ~DomOnly(m.reason)
         THEN \E draw \in RandomDraws : enterBlock(draw)
         ELSE UNCHANGED <<blockedUntil, stBlockedUntil, pollingAlarm, currentState,
                          resumedClear>>
    /\ UNCHANGED <<now, tabVars, flowVars, xVars, stProgress, currentJob, jobQueue,
                   stJobQueue, submittedResults, apiResults, toCS, visit, submitting, pollPc, undelivered, failure, callArgs, callResult, collectIn, collectOut, startTarget, recoveries, faults,
                   restarted>>

\* handleWebRequestCompleted for an HTTP 429 or a challenge URL
WebRequestBlocked ==
  /\ \E draw \in RandomDraws : enterBlock(draw)
  /\ toCS' = toCS \cup {CancelMsg}
  /\ Fault
  /\ UNCHANGED <<now, tabVars, flowVars, xVars, stProgress, currentJob, jobQueue,
                 stJobQueue, submittedResults, apiResults, toSW, visit, submitting, pollPc, undelivered, failure, callArgs, callResult, collectIn, collectOut, startTarget, recoveries, restarted>>

\* handleMessage, case RESUME_AFTER_BLOCK; the popup offers the button while
\* the status it reads reports a block
ResumeAfterBlock ==
  /\ isBlocked
  /\ clearBlock
  /\ resumedClear' = TRUE
  /\ UNCHANGED <<now, tabVars, flowVars, xVars, stProgress, currentState,
                 currentJob, jobQueue, stJobQueue, submittedResults, apiResults,
                 toSW, toCS, visit, submitting, pollPc, undelivered, failure, callArgs, callResult, collectIn, collectOut, startTarget, recoveries, faults, restarted>>

\* handleMessage, case CLEAR_LOCAL_STATE, counted as the disturbance counted
ClearLocal(counted) ==
  /\ stBlockedUntil' = 0
  /\ stJobQueue' = <<>>
  /\ stProgress' = NoProgress
  /\ currentJob' = 0
  /\ jobQueue' = <<>>
  /\ currentState' = "idle"
  /\ pollingAlarm' = TRUE
  /\ counted
  /\ undelivered' = 0
  /\ UNCHANGED <<now, tabVars, flowVars, xVars, blockedUntil, submittedResults,
                 apiResults, toSW, toCS, visit, submitting, pollPc, failure, callArgs, callResult, collectIn, collectOut, startTarget, recoveries, restarted, resumedClear>>

ClearLocalState == ClearLocal(Fault)

\* the service worker is stopped and started again: constructor, initialize
\* (restoreState, getBlockedUntil, validateApiKey, pollForJobs)
SWRestart ==
  /\ blockedUntil' = stBlockedUntil
  /\ submittedResults' = {}
  /\ pollingAlarm' = TRUE
  /\ currentState' = "idle"
  /\ IF isGloballyBlocked
       THEN /\ currentJob' = 0
            /\ jobQueue' = <<>>
            /\ UNCHANGED <<stJobQueue, toCS>>
       ELSE \E fetched \in Fetched :
            LET r == PollEffect(<<>>, 0, fetched) IN
            /\ jobQueue' = r.queue
            /\ stJobQueue' = r.stored
            /\ currentJob' = r.cur
            /\ toCS' = r.toCS
  /\ Fault
  /\ undelivered' = 0
  /\ pollPc' = "idle"
  /\ submitting' = [j \in Jobs |-> 0]
  /\ UNCHANGED <<now, tabVars, flowVars, xVars, stProgress, stBlockedUntil,
                 apiResults, toSW, visit, failure, callArgs, callResult, collectIn, collectOut, startTarget, recoveries, restarted, resumedClear>>

\* ----------------------------------------------------------- specification
\* the state of a freshly installed extension with the tab on the listing
InitProgram ==
  /\ now = 0
  /\ here = LISTING
  /\ pageBlocked = FALSE
  /\ pendingNav = NoNav
  /\ tabEvent = FALSE
  /\ pc = "init"
  /\ xpc = "none"
  /\ progress = NoProgress
  /\ navUrl = NoNav
  /\ navCaller = "resume"
  /\ xUrl = NoNav
  /\ isExecuting = FALSE
  /\ csJob = 0
  /\ navInProgress = FALSE
  /\ stProgress = NoProgress
  /\ stBlockedUntil = 0
  /\ stJobQueue = <<>>
  /\ blockedUntil = 0
  /\ currentState = "idle"
  /\ currentJob = 0
  /\ jobQueue = <<>>
  /\ submittedResults = {}
  /\ pollingAlarm = TRUE
  /\ apiResults = [j \in Jobs |-> 0]
  /\ toSW = {}
  /\ toCS = {}
  /\ visit \in VisitScenarios
  /\ undelivered = 0
  /\ pollPc = "idle"
  /\ submitting = [j \in Jobs |-> 0]
  /\ failure = "none"
  /\ startTarget = NoNav
  /\ recoveries = 0
  /\ faults = 0
  /\ restarted = FALSE
  /\ resumedClear = FALSE

\* no queue built yet
NotBuilt == [built |-> FALSE, urls |-> <<>>]

Init ==
  /\ InitProgram
  /\ collectIn = [urls |-> <<>>, doc |-> ListingDoc, maxItems |-> 0, next |-> <<>>]
  /\ collectOut = NotBuilt
  /\ callArgs = NoCall
  /\ callResult = NoCall

Next ==
  \/ InitCheck \/ ResumeLoad \/ Route \/ Extract \/ GoBack \/ BackFallback
  \/ AfterBack \/ NavCheck \/ NavGo \/ FinalSend \/ FinalClear
  \/ HandleExecuteJob \/ XNavCheck \/ XNavGo \/ XFinish \/ HandleCancelJob
  \/ PageLoad \/ PageLoadAstray \/ PageLoadAstrayAgain \/ Reload \/ PageTurnsBlocked \/ Tick
  \/ PollAlarm \/ ForcePoll \/ HandleTabUpdate \/ HandleJobStarted
  \/ HandleJobCompleted \/ HandleJobFailed \/ HandleBlockDetected
  \/ WebRequestBlocked \/ ResumeAfterBlock \/ ClearLocalState \/ SWRestart

Spec == Init /\ [][Next]_vars

\* ------------------------------------------------- the queue, on any input
\* startDetailWorkflow's queue construction applied to every document and
\* configuration within the bounds
SeqsUpTo(S, n) == UNION {[1..k -> S] : k \in 0..n}

Docs == [selectors : [1..NumSelectors -> SeqsUpTo(RawHrefs, MaxMatches)],
         fallback : SeqsUpTo(RawHrefs, MaxFallback)]

\* a job without config.urls on any document, whose pagination link (when
\* next is not empty) leads to a page with the links next; or a job with
\* config.urls
CollectInputs ==
  [urls : {<<>>}, doc : Docs, maxItems : 0..NumLinks,
   next : SeqsUpTo(RawHrefs, MaxNextLinks)]
  \cup [urls : SeqsUpTo(RawHrefs, MaxMatches) \ {<<>>}, doc : {ListingDoc},
        maxItems : 0..NumLinks, next : {<<>>}]

InitCollect ==
  /\ InitProgram
  /\ visit = [t \in Targets |-> "record"]
  /\ collectIn \in CollectInputs
  /\ collectOut = NotBuilt
  /\ callArgs = NoCall
  /\ callResult = NoCall

\* startDetailWorkflow up to the slice it persists
BuildTargetQueue ==
  /\ ~collectOut.built
  /\ collectOut' = [built |-> TRUE,
                    urls |-> TargetQueue(collectIn.urls, collectIn.doc,
                                         collectIn.maxItems)]
  /\ UNCHANGED <<now, tabVars, flowVars, xVars, stProgress, stBlockedUntil,
                 swVars, toSW, toCS, visit, submitting, pollPc, undelivered, failure, callArgs, callResult, collectIn, startTarget, recoveries,
                 faults, restarted, resumedClear>>

NextCollect == BuildTargetQueue

SpecCollect == InitCollect /\ [][NextCollect]_vars

\* ------------------------------------------------ the dwell, on any input
\* the lowest estimate computeDwellMs lets through
MIN_DWELL_ESTIMATE == 1000

\* the value JavaScript arithmetic yields for 0 / 0
NaN == -2

MaxOf(a, b) == IF a >= b THEN a ELSE b
MinOf(a, b) == IF a <= b THEN a ELSE b

\* Math.round(num / den) for num >= 0, den > 0
Round(num, den) == (2 * num + den) \div (2 * den)

\* computeDwellMs(hc) on a page whose description and info list hold `words`
\* words; domThrows: reading the document throws.  words / 0 is Infinity, which
\* the limits bring to maxD; 0 / 0 is NaN, which Math.max and Math.min pass on
computeDwellMs(hc, words, domThrows) ==
  LET wpm == Nullish(hc.readingSpeedWpm, READING_SPEED_WPM)
      minD == Nullish(hc.minPageDwell, MIN_PAGE_DWELL)
      maxD == Nullish(hc.maxPageDwell, MAX_PAGE_DWELL)
  IN IF domThrows THEN (minD + maxD) \div 2
     ELSE IF wpm = 0 THEN (IF words = 0 THEN NaN ELSE maxD)
     ELSE LET est == MaxOf(MIN_DWELL_ESTIMATE, Round(words * MS_PER_MINUTE, wpm))
          IN MinOf(maxD, MaxOf(minD, est))

\* the settings and pages the function is applied to
WordCounts == {0, 1, 2, 40, 100}
DwellConfigs ==
  {[NoHumanize EXCEPT !.readingSpeedWpm = w, !.minPageDwell = lo, !.maxPageDwell = hi] :
     w \in {Absent, 0, 100}, lo \in {Absent, 0, 500, 30000}, hi \in {Absent, 5000}}
DwellInputs ==
  [fn : {"computeDwellMs"}, hc : DwellConfigs, words : WordCounts, domThrows : BOOLEAN]

InitDwell ==
  /\ InitProgram
  /\ visit = [t \in Targets |-> "record"]
  /\ collectIn = [urls |-> <<>>, doc |-> ListingDoc, maxItems |-> 0, next |-> <<>>]
  /\ collectOut = NotBuilt
  /\ callArgs \in DwellInputs
  /\ callResult = NoCall

\* resumeDetailWorkflowIfAny's call of computeDwellMs
ApplyComputeDwellMs ==
  /\ callArgs.fn = "computeDwellMs"
  /\ callResult = NoCall
  /\ callResult' = [fn |-> "computeDwellMs",
                    value |-> computeDwellMs(callArgs.hc, callArgs.words,
                                             callArgs.domThrows)]
  /\ UNCHANGED <<now, tabVars, flowVars, xVars, stProgress, stBlockedUntil,
                 swVars, toSW, toCS, visit, submitting, pollPc, undelivered, failure, callArgs, collectIn,
                 collectOut, startTarget, recoveries, faults, restarted,
                 resumedClear>>

NextDwell == ApplyComputeDwellMs

SpecDwell == InitDwell /\ [][NextDwell]_vars

\* ---------------------------------------- field extraction, on any input
\* texts are sequences of characters
Digits == {"0", "2", "5"}
NumberChars == Digits \cup {",", "."}
Chars == {"2", "0", ".", ",", " ", "x"}

\* bounds of the inputs
MaxTextLen == 3        \* characters of a text an element holds
MaxFieldSelectors == 2 \* candidate selectors of one field

\* the text of the element the claim's second selector matches
PriceText == <<" ", " ", "2", "5", "0", ".", "0", "0", "0", " ">>

\* results: null, a string, a number with its integer part and the digits
\* after the point (without trailing zeros)
Null == [kind |-> "null"]
Str(t) == [kind |-> "text", text |-> t]
Num(i, f) == [kind |-> "number", int |-> i, frac |-> f]

\* !value
Falsy(v) == v = Null \/ v = Str(<<>>)

DigitVal(c) == CASE c = "0" -> 0 [] c = "2" -> 2 [] c = "5" -> 5

RECURSIVE ToInt(_)
ToInt(ds) == IF ds = <<>> THEN 0
             ELSE 10 * ToInt(SubSeq(ds, 1, Len(ds) - 1)) + DigitVal(ds[Len(ds)])

RECURSIVE StripZeros(_)
StripZeros(ds) == IF ds # <<>> /\ ds[Len(ds)] = "0"
                    THEN StripZeros(SubSeq(ds, 1, Len(ds) - 1)) ELSE ds

RECURSIVE TakeWhile(_, _)
TakeWhile(t, S) == IF t # <<>> /\ Head(t) \in S
                     THEN <<Head(t)>> \o TakeWhile(Tail(t), S) ELSE <<>>

RECURSIVE DropUntil(_, _)
DropUntil(t, S) == IF t # <<>> /\ Head(t) \notin S THEN DropUntil(Tail(t), S) ELSE t

\* String.prototype.trim
RECURSIVE TrimEnd(_)
TrimEnd(t) == IF t # <<>> /\ t[Len(t)] = " " THEN TrimEnd(SubSeq(t, 1, Len(t) - 1)) ELSE t
Trim(t) == TrimEnd(DropUntil(t, Chars \ {" "}))

\* replace(/\s+/g, ' ')
RECURSIVE CollapseSpaces(_)
CollapseSpaces(t) ==
  IF Len(t) < 2 THEN t
  ELSE IF t[1] = " " /\ t[2] = " " THEN CollapseSpaces(Tail(t))
  ELSE <<Head(t)>> \o CollapseSpaces(Tail(t))

\* cleanText: null for an empty text, else trimmed with whitespace normalized
cleanText(t) == IF t = <<>> THEN Null ELSE Str(Trim(CollapseSpaces(Trim(t))))

\* an element a selector matches holds a text; NoElement: it matches nothing
NoElement == <<"none">>

\* extractText(container, selector) where the selector matches m
extractText(m) == IF m = NoElement THEN Null ELSE cleanText(m)

\* parseFloat on a text of digits and points
parseFloat(t) ==
  LET ip == TakeWhile(t, Digits)
      rest == SubSeq(t, Len(ip) + 1, Len(t))
      fp == IF rest # <<>> /\ Head(rest) = "." THEN TakeWhile(Tail(rest), Digits) ELSE <<>>
  IN IF ip = <<>> /\ fp = <<>> THEN Null ELSE Num(ToInt(ip), StripZeros(fp))

\* extractNumber: the first run of digits, commas and points, commas turned
\* into points, read by parseFloat (null when that is NaN)
extractNumber(t) ==
  LET run == TakeWhile(DropUntil(t, NumberChars), NumberChars)
      cleaned == [i \in 1..Len(run) |-> IF run[i] = "," THEN "." ELSE run[i]]
  IN IF run = <<>> THEN Null ELSE parseFloat(cleaned)

\* extractPrice: everything but digits, commas and points removed first
extractPrice(t) == extractNumber(SelectSeq(t, LAMBDA c : c \in NumberChars))

\* transformValue
transformValue(v, transformType) ==
  IF Falsy(v) THEN v
  ELSE CASE transformType = "number" -> extractNumber(v.text)
         [] transformType = "price" -> extractPrice(v.text)
         [] OTHER -> v

\* extractComplexField with fieldConfig.selectors: matches[i] is what the
\* i-th selector matches; transformType "none": no fieldConfig.transform
RECURSIVE extractComplexField(_, _)
extractComplexField(matches, transformType) ==
  IF matches = <<>> THEN Null
  ELSE LET result == extractText(Head(matches)) IN
    IF ~Falsy(result)
      THEN IF transformType # "none" THEN transformValue(result, transformType) ELSE result
      ELSE extractComplexField(Tail(matches), transformType)

\* JobExecutor.parsePrice on the text extractText returned: the digits of the
\* text read as one number
parsePrice(v) ==
  IF Falsy(v) THEN Null
  ELSE LET digits == SelectSeq(v.text, LAMBDA c : c \in Digits) IN
    IF digits = <<>> THEN Null ELSE Num(ToInt(digits), <<>>)

FieldTexts == SeqsUpTo(Chars, MaxTextLen) \cup {PriceText}
FieldInputs ==
  [fn : {"extractComplexField"},
   earlier : SeqsUpTo({NoElement, <<>>, <<" ">>, PriceText}, MaxFieldSelectors - 1),
   last : FieldTexts \cup {NoElement},
   transform : {"none", "number", "price"}]
  \cup [fn : {"parsePrice"}, text : FieldTexts \cup {NoElement}]

InitField ==
  /\ InitProgram
  /\ visit = [t \in Targets |-> "record"]
  /\ collectIn = [urls |-> <<>>, doc |-> ListingDoc, maxItems |-> 0, next |-> <<>>]
  /\ collectOut = NotBuilt
  /\ callArgs \in FieldInputs
  /\ callResult = NoCall

\* the selectors of the field in order: the earlier ones, then the last
MatchesOfCall == callArgs.earlier \o <<callArgs.last>>

\* extractListData's call of extractComplexField for one field
ApplyExtractComplexField ==
  /\ callArgs.fn = "extractComplexField"
  /\ callResult = NoCall
  /\ callResult' = [fn |-> "extractComplexField",
                    value |-> extractComplexField(MatchesOfCall, callArgs.transform)]
  /\ UNCHANGED <<now, tabVars, flowVars, xVars, stProgress, stBlockedUntil,
                 swVars, toSW, toCS, visit, submitting, pollPc, undelivered, failure, callArgs, collectIn,
                 collectOut, startTarget, recoveries, faults, restarted,
                 resumedClear>>

\* extractDetailData's call of parsePrice on the raw price text
ApplyParsePrice ==
  /\ callArgs.fn = "parsePrice"
  /\ callResult = NoCall
  /\ callResult' = [fn |-> "parsePrice", value |-> parsePrice(extractText(callArgs.text))]
  /\ UNCHANGED <<now, tabVars, flowVars, xVars, stProgress, stBlockedUntil,
                 swVars, toSW, toCS, visit, submitting, pollPc, undelivered, failure, callArgs, collectIn,
                 collectOut, startTarget, recoveries, faults, restarted,
                 resumedClear>>

NextField == ApplyExtractComplexField \/ ApplyParsePrice

SpecField == InitField /\ [][NextField]_vars

\* ------------------------------------- the start-up flow when a step fails
\* the history variables a failure leaves alone
quietHist == <<visit, submitting, pollPc, undelivered, callArgs, callResult, collectIn, collectOut, startTarget, recoveries, restarted, resumedClear>>

\* a failure inside the incarnation: counted as a disturbance, its kind kept
Fails(kind) == Fault /\ failure' = kind

\* an exception no inner catch takes, were resumeDetailWorkflowIfAny without
\* its outer catch: it leaves the routine
CatchNothing(thrownAt) == "crashed"

\* resumeDetailWorkflowIfAny's outer try/catch: the exception ends the routine
CatchAll(thrownAt) == "caught"

\* chrome.storage.local.set failed inside persistDetailProgress: the catch
\* swallows it and the store keeps what it held
persistDetailProgressFailed(p) == stProgress

\* loadDetailProgress when chrome.storage.local.get failed: null
loadDetailProgressFailed == NoProgress

\* on the expected detail: extractDetailData throws (it rethrows what it catches)
ExtractThrows ==
  /\ pc = "dwell"
  /\ Fails("extraction")
  /\ pc' = CatchAll("dwell")
  /\ Returned
  /\ UNCHANGED <<now, tabVars, xVars, stProgress, stBlockedUntil, swVars, toSW,
                 toCS, quietHist>>

\* on the expected detail: waitForPageReady or waitForContent times out; the
\* inner catch swallows it and the routine goes on to the extraction
ReadyTimeout ==
  /\ pc = "dwell"
  /\ Fails("timeout")
  /\ UNCHANGED <<now, tabVars, flowVars, xVars, stProgress, stBlockedUntil,
                 swVars, toSW, toCS, quietHist>>

\* on the expected detail: the step is taken but persisting it fails
PersistFails ==
  /\ pc = "dwell"
  /\ Fails("storage_set")
  /\ LET p == AfterStep(progress, DetailOf(progress, visit[here]), here) IN
       /\ progress' = p
       /\ stProgress' = persistDetailProgressFailed(p)
       /\ pc' = IF p.index < Len(p.urls) THEN "go_back" ELSE "final_send"
  /\ UNCHANGED <<now, tabVars, navUrl, navCaller, xVars, stBlockedUntil,
                 swVars, toSW, toCS, quietHist>>

\* resumeDetailWorkflowIfAny: the load fails, which reads as no progress
LoadFails ==
  /\ pc = "load"
  /\ Fails("storage_get")
  /\ pc' = IF loadDetailProgressFailed.jobId = 0 THEN "done" ELSE "route"
  /\ UNCHANGED <<now, tabVars, progress, navUrl, navCaller, xVars, stProgress,
                 stBlockedUntil, swVars, toSW, toCS, quietHist>>

\* finalize: clearDetailProgress fails and swallows it
ClearFails ==
  /\ pc = "final_clear"
  /\ Fails("storage_remove")
  /\ pc' = "done"
  /\ Returned
  /\ UNCHANGED <<now, tabVars, xVars, stProgress, stBlockedUntil, swVars, toSW,
                 toCS, quietHist>>

\* navigateToUrl: the page does not change and waitForPageReady rejects;
\* navigateToUrl rethrows, goBackToListing swallows, the routine's own calls
\* reach its outer catch
NavThrows ==
  /\ pc = "nav_go"
  /\ Fails("transition")
  /\ navInProgress' = TRUE
  /\ IF navCaller = "goback"
       THEN /\ pc' = "after_back"
            /\ UNCHANGED <<progress, navUrl, navCaller>>
       ELSE /\ pc' = CatchAll("nav_go")
            /\ Returned
  /\ UNCHANGED <<now, tabVars, xpc, xUrl, isExecuting, csJob, stProgress,
                 stBlockedUntil, swVars, toSW, toCS, quietHist>>

\* the HUD goes out of order (its elements are gone, a DOM write throws):
\* from here on no status notification of the run is delivered
HudBreaks ==
  /\ pc \in {"route", "dwell"}
  /\ Fails("notification")
  /\ UNCHANGED <<now, tabVars, flowVars, xVars, stProgress, stBlockedUntil,
                 swVars, toSW, toCS, quietHist>>

NextFailing ==
  \/ Next
  \/ ExtractThrows \/ ReadyTimeout \/ PersistFails \/ LoadFails \/ ClearFails
  \/ NavThrows \/ HudBreaks

SpecFailing == Init /\ [][NextFailing]_vars

\* ------------------------------------------------------------------ claims
\* steps in which the orchestrator initiates a transition: history.back(),
\* or window.location.href = url in either flow
InitiatesTransition ==
  \/ pc = "go_back" /\ pc' = "back_fallback"
  \/ pc = "nav_go" /\ pc' \in {"after_back", "done"}
  \/ xpc = "nav_go" /\ xpc' = "ready"

\* C1: while the block flag is active the orchestrator initiates no
\* transition, neither a direct navigation nor a "go back", even when the
\* flag was raised after the incarnation's block check.
C1_NoTransitionWhileBlocked ==
  [][InitiatesTransition => ~isGloballyBlocked]_vars

\* C2: while blockedUntil > now the orchestrator performs no extraction and
\* writes no changed WorkflowProgress (cursor, results or queue).
C2_NoExtractionWhileBlocked ==
  [][((pc = "dwell" /\ pc' \in {"go_back", "final_send"})
      \/ (stProgress' # stProgress /\ stProgress' # NoProgress))
     => ~isGloballyBlocked]_vars

\* C3: an incarnation whose start-up finds the system blocked (the global
\* flag, or the detector matching the page) stops and leaves the persisted
\* WorkflowProgress exactly as it found it.
C3_BlockedStartKeepsProgress ==
  [][(pc \in {"init", "load"} /\ pc' = "done"
      /\ (isGloballyBlocked \/ isLikelyBlockedPage))
     => stProgress' = stProgress]_vars

\* steps that are an explicit cancellation: a CANCEL_JOB is handled, or the
\* local state is cleared from the popup
ExplicitCancellation ==
  \/ \E m \in toCS : m.type = "CANCEL_JOB" /\ toCS' = toCS \ {m}
  \/ pc' = pc /\ jobQueue' = <<>> /\ stJobQueue' = <<>> /\ currentJob' = 0

\* C4: a block on a job that was not explicitly cancelled preserves
\* resumability: while the system is blocked, a persisted workflow that still
\* has targets is removed by nothing but an explicit cancellation, so the
\* incarnation after the window loads it and continues from its cursor.
C4_BlockPreservesResumability ==
  [][(WorkflowPending(stProgress) /\ (isGloballyBlocked \/ isLikelyBlockedPage)
      /\ stProgress' = NoProgress)
     => ExplicitCancellation]_vars

\* C5: every persisted WorkflowProgress has 0 <= cursor <= len(queue) and
\* len(results) <= cursor.
C5_CursorBounds ==
  /\ 0 <= stProgress.index
  /\ stProgress.index <= Len(stProgress.urls)
  /\ Len(stProgress.results) <= stProgress.index

\* a stored workflow that has run to the end of a full queue, one visit of
\* which yielded no record
C5_Witness ==
  /\ stProgress.jobId # 0
  /\ stProgress.index = NumLinks
  /\ Len(stProgress.urls) = NumLinks
  /\ Len(stProgress.results) = NumLinks - 1

\* the records an uninterrupted run over the queue of p produces
RecordCount(p) ==
  Cardinality({i \in 1..Len(p.urls) : DetailOf(p, visit[p.urls[i]])})

\* C6: an incarnation that reloads progress resumes from exactly the
\* persisted cursor, and a run that reaches its end, restarted or not, holds
\* as many records as an uninterrupted run over the same targets.
C6_RestartResumesAtCursor ==
  /\ [](pc = "final_send" => Len(progress.results) = RecordCount(progress))
  /\ [][(pc = "load" /\ pc' = "route") => progress' = stProgress]_vars

\* a run torn down mid-queue that reached its end with every record
C6_Witness ==
  /\ restarted
  /\ pc = "final_send"
  /\ Len(progress.urls) = NumLinks
  /\ Len(progress.results) = NumLinks

\* C7: while a job's workflow is in flight (persisted, targets left), no
\* request for another job starts executing in its place.
C7_SingleActiveJob ==
  [][(WorkflowPending(stProgress) /\ stProgress'.jobId # 0)
     => stProgress'.jobId = stProgress.jobId]_vars

\* C8: a producer's write to blockedUntil while the flag is active never
\* moves it to an earlier time.
C8_WritesOnlyWiden ==
  [][(isGloballyBlocked /\ stBlockedUntil' # 0)
     => stBlockedUntil' >= stBlockedUntil]_vars

\* now + 60 minutes .. now + 120 minutes
InBackoffWindow(t) ==
  /\ t >= now + BLOCK_MIN_MINUTES * MS_PER_MINUTE
  /\ t <= now + (BLOCK_MIN_MINUTES + BLOCK_SPREAD - 1) * MS_PER_MINUTE

\* C9: whenever a producer triggers, the content heuristic reporting a
\* blocking page or the transport signal, blockedUntil is set to a time
\* between now + 60 and now + 120 minutes.
C9_TriggerSetsWindow ==
  [][((\E m \in toSW : /\ m.type = "BLOCK_DETECTED"
                       /\ m.reason # "Global block"
                       /\ toSW' = toSW \ {m})
      \/ (stBlockedUntil' # stBlockedUntil /\ stBlockedUntil' # 0))
     => InBackoffWindow(stBlockedUntil')]_vars

C11_FinalizesAtEnd ==
  [][/\ ((pc = "route" /\ pc' \notin {"route", "init"}
          /\ progress.index >= Len(progress.urls))
         => pc' = "final_send")
     /\ ((pc = "dwell" /\ pc' \notin {"dwell", "init"}
          /\ progress'.index >= Len(progress'.urls))
         => pc' = "final_send")
     /\ ((pc = "final_send" /\ pc' = "final_clear")
         => toSW' = SendSW(toSW, Msg("JOB_COMPLETED", progress.jobId, "",
                                     progress.results)))
     /\ ((pc = "final_clear" /\ pc' = "done") => stProgress' = NoProgress)
     /\ ((pc = "load" /\ pc' = "done" /\ stProgress.jobId # 0
          /\ stProgress.index >= Len(stProgress.urls))
         => stProgress' = NoProgress)]_vars

\* the collector returns more links on the listing than job 1 may visit
MoreThanMax == Len(collectDetailLinks(LISTING)) > MaxItemsOf(1)

\* a progress of job 1 built from the listing is capped at maxItems
Capped(p) ==
  (MoreThanMax /\ p.jobId = 1 /\ p.urls # <<>>)
    => /\ p.urls = SubSeq(collectDetailLinks(LISTING), 1, MaxItemsOf(1))
       /\ p.index <= MaxItemsOf(1)
       /\ Len(p.results) <= MaxItemsOf(1)

\* C12: job 1 has maxItems m and is started on the listing, where the
\* collector returns n > m links: its queue is the first m of them, cursor
\* and results never exceed m, it finalizes with the cursor at m by sending
\* JOB_COMPLETED with at most m records, and then clears the progress
C12_MaxItemsCapsRun ==
  /\ [](/\ Capped(progress)
        /\ Capped(stProgress)
        /\ (MoreThanMax /\ pc \in {"final_send", "final_clear"}
            /\ progress.jobId = 1 /\ progress.urls # <<>>)
             => progress.index = MaxItemsOf(1)
        /\ \A msg \in toSW :
             (MoreThanMax /\ msg.type = "JOB_COMPLETED" /\ msg.job = 1)
               => Len(msg.data) <= MaxItemsOf(1))
  /\ [][/\ (pc = "final_send" /\ pc' = "final_clear" /\ progress.jobId = 1)
            => toSW' = SendSW(toSW, Msg("JOB_COMPLETED", 1, "",
                                        progress.results))
        /\ (pc = "final_clear" /\ pc' = "done" /\ progress.jobId = 1)
            => stProgress' = NoProgress]_vars

\* job 1 has visited its m targets out of n > m and sent its completion
C12_Witness ==
  /\ MoreThanMax
  /\ pc = "final_clear"
  /\ progress.jobId = 1
  /\ Len(progress.urls) = MaxItemsOf(1)
  /\ progress.index = MaxItemsOf(1)
  /\ Len(progress.results) = MaxItemsOf(1)
  /\ \E msg \in toSW : msg.type = "JOB_COMPLETED" /\ msg.job = 1

\* no locator occurs twice in a sequence
NoDuplicates(urls) ==
  \A i, j \in 1..Len(urls) : i # j => urls[i] # urls[j]

\* C13: the queue startDetailWorkflow persists never holds the same
\* normalized locator twice, whether it was collected from the document or
\* taken from config.urls
C13_QueueHasNoDuplicates == collectOut.built => NoDuplicates(collectOut.urls)

\* the same, for the queues collected from a document only
C13_CollectedQueueHasNoDuplicates ==
  (collectOut.built /\ collectIn.urls = <<>>) => NoDuplicates(collectOut.urls)

\* the absolute locators of the anchors a selector matches
MatchesOf(nodes) == {makeAbsolute(nodes[i]) : i \in 1..Len(nodes)}

\* the first selector, in order, that matches an anchor
FirstMatching(sels) ==
  CHOOSE k \in 1..Len(sels) :
    /\ sels[k] # <<>>
    /\ \A i \in 1..(k - 1) : sels[i] = <<>>

\* the locators of a queue
QueueSet(urls) == {urls[i] : i \in 1..Len(urls)}

\* the smaller of two numbers
Smaller(a, b) == IF a < b THEN a ELSE b

\* C14: when some selector matches an anchor, the collected queue consists of
\* the matches of the first such selector alone: every entry is one of its
\* matches, and the queue is as long as its distinct matches (up to
\* maxItems) whatever the later selectors match
C14_FirstStrategyWins ==
  (/\ collectOut.built
   /\ collectIn.urls = <<>>
   /\ \E k \in 1..NumSelectors : collectIn.doc.selectors[k] # <<>>)
    => LET first == collectIn.doc.selectors[FirstMatching(collectIn.doc.selectors)]
       IN /\ QueueSet(collectOut.urls) \subseteq MatchesOf(first)
          /\ Len(collectOut.urls)
               = Smaller(Cardinality(MatchesOf(first)),
                         EffectiveMaxItems(collectIn.maxItems))

\* a queue with room left was built from a document whose first matching
\* selector is followed by one that matches an ad the first does not
C14_Witness ==
  /\ collectOut.built
  /\ collectIn.urls = <<>>
  /\ collectIn.doc.selectors[1] # <<>>
  /\ \E k \in 2..NumSelectors :
       ~(MatchesOf(collectIn.doc.selectors[k])
           \subseteq MatchesOf(collectIn.doc.selectors[1]))
  /\ Len(collectOut.urls) < EffectiveMaxItems(collectIn.maxItems)
  /\ QueueSet(collectOut.urls) = MatchesOf(collectIn.doc.selectors[1])

\* C15: a collected queue is either full (maxItems entries) or holds every
\* link pagination leads to: when the document has a pagination link, the
\* links of the page behind it are in the queue as well
C15_CollectsAcrossPages ==
  (collectOut.built /\ collectIn.urls = <<>>)
    => \/ Len(collectOut.urls) >= EffectiveMaxItems(collectIn.maxItems)
       \/ MatchesOf(collectIn.next) \subseteq QueueSet(collectOut.urls)

\* C16: a step that changes the cursor or the results of the running
\* workflow stores the changed progress in the same step, the start flow
\* stores the fresh progress before it goes on to navigate, and the steps
\* that initiate a transition change neither the progress nor its stored copy:
\* every mutation is in storage before the transition that follows it
C16_PersistBeforeTransition ==
  [][/\ (/\ progress' # NoProgress
         /\ \/ progress'.index # progress.index
            \/ progress'.results # progress.results)
          => stProgress' = progress'
     /\ (xpc = "none" /\ xpc' = "nav_check")
          => /\ stProgress'.jobId = csJob'
             /\ stProgress'.index = 0
             /\ stProgress'.results = <<>>
             /\ xUrl' = stProgress'.urls[1]
     /\ InitiatesTransition
          => progress' \in {progress, NoProgress} /\ stProgress' = stProgress]_vars

\* the first target's record and the advanced cursor are stored, and the way
\* back to the listing has been initiated
C16_Witness ==
  /\ pc = "back_fallback"
  /\ pendingNav = LISTING
  /\ progress.index = 1
  /\ Len(progress.results) = 1
  /\ stProgress = progress

\* the tab shows the target the stored cursor points at and the page text
\* matches the block heuristic
OnBlockedTarget ==
  /\ WorkflowPending(stProgress)
  /\ isSameDetail(here, stProgress.urls[stProgress.index + 1])
  /\ isLikelyBlockedPage

\* C17: an incarnation that is on the expected target while the block
\* heuristic matches halts: whichever of its checks notices, the step ends
\* the flow, leaves the stored cursor and results as they are, starts no
\* extraction and initiates no transition
C17_BlockedTargetHalts ==
  [][(OnBlockedTarget /\ pc \in {"init", "load", "route"} /\ pc' # pc)
       => /\ pc' \in {"done", "init"}
          /\ stProgress' = stProgress
          /\ pendingNav' = pendingNav]_vars

\* the same for the check made on the target itself, after the progress has
\* been loaded
C17_RouteCheckHalts ==
  [][(OnBlockedTarget /\ pc = "route" /\ pc' # pc)
       => /\ pc' \in {"done", "init"}
          /\ stProgress' = stProgress
          /\ pendingNav' = pendingNav]_vars

\* C18: the step that processes a target advances the cursor by exactly one
\* and appends at most one record, the one of the page visited; on a
\* quick-skip nothing is appended; the stored progress is the advanced one
C18_OneStepPerTarget ==
  [][(pc = "dwell" /\ pc' \notin {"dwell", "init"})
       => /\ progress'.index = progress.index + 1
          /\ \/ progress'.results = progress.results
             \/ progress'.results = Append(progress.results, here)
          /\ (visit[here] = "quick_skip") => progress'.results = progress.results
          /\ progress'.urls = progress.urls
          /\ stProgress' = progress']_vars

\* the first target was visited under the quick-skip draw: the cursor is past
\* it and no record was taken
C18_Witness ==
  /\ pc \in {"go_back", "final_send"}
  /\ progress.index = 1
  /\ visit[progress.urls[1]] = "quick_skip"
  /\ progress.results = <<>>
  /\ stProgress = progress

\* C19: in an incarnation that began on the listing, unblocked, with a target
\* pending, the first transition the script initiates is to that target,
\* targetQueue[cursor], and to nothing else
C19_AnchorLeadsToTarget ==
  [][(startTarget # NoNav /\ pendingNav = NoNav /\ InitiatesTransition)
       => pendingNav' = startTarget]_vars

\* resumeDetailWorkflowIfAny on the listing: the transition it initiates is to
\* the target at the cursor of the progress it loaded
C19_ResumeFollowsLoaded ==
  [][(here = LISTING /\ pc = "nav_go" /\ pc' \in {"after_back", "done"})
       => /\ WorkflowPending(progress)
          /\ pendingNav' = progress.urls[progress.index + 1]]_vars

\* C20: away from the listing and from the expected target the script makes
\* one recovery transition to the listing; when that does not bring the tab
\* back onto the listing or the target, no second one is initiated
C20_OneRecoveryAttempt == recoveries <= 1

\* the content script handles a CANCEL_JOB request
HandlesCancel == \E m \in toCS : m.type = "CANCEL_JOB" /\ toCS' = toCS \ {m}

\* C21: when a cancel request is handled while a workflow is in flight, the
\* stored progress is cleared, so that no later incarnation loads and resumes
\* it, whatever the incarnation that receives the request
C21_CancelClearsProgress ==
  [][(HandlesCancel /\ WorkflowPending(stProgress))
       => stProgress' = NoProgress]_vars

\* the same for a request handled while handleExecuteJob is still running
C21_CancelWhileExecutingClears ==
  [][(HandlesCancel /\ WorkflowPending(stProgress) /\ isExecuting)
       => stProgress' = NoProgress]_vars

\* a flow of the content script is at work on a job: the script is marked
\* executing, or a flow stands before a step that extracts, navigates or
\* reports without looking at the block flag again
Executing ==
  \/ isExecuting
  \/ xpc = "nav_go"
  \/ pc \in {"route", "dwell", "go_back", "nav_go", "final_send"}

\* C22: the step that handles a 429 or challenge response sets the backoff,
\* in memory and in storage, and sends CANCEL_JOB to the tab; once the tab
\* has handled that request no flow of the content script is still at work
\* on a job
C22_BlockCancelsRunningJobs ==
  [][/\ (CancelMsg \notin toCS /\ CancelMsg \in toCS')
          => /\ blockedUntil' > now
             /\ stBlockedUntil' = blockedUntil'
     /\ HandlesCancel => ~Executing']_vars

\* the backoff part alone: the step that sends CANCEL_JOB sets blocked_until
C22_BlockSetsBackoff ==
  [][(CancelMsg \notin toCS /\ CancelMsg \in toCS')
          => /\ blockedUntil' > now
             /\ stBlockedUntil' = blockedUntil']_vars

\* C23: a job whose link collection yields nothing is finalized with an empty
\* result and leaves no progress behind: storage never holds a progress with
\* an empty queue
C23_EmptyCollectionLeavesNothing ==
  stProgress.jobId # 0 => stProgress.urls # <<>>

\* the finalization alone: the step that finds the collection empty hands a
\* JOB_COMPLETED with zero records to the runtime
C23_EmptyCollectionCompletes ==
  [][(stProgress' # stProgress /\ stProgress'.jobId # 0 /\ stProgress'.urls = <<>>)
       => LET done == Msg("JOB_COMPLETED", stProgress'.jobId, "", <<>>)
              started == Msg("JOB_STARTED", stProgress'.jobId, "", <<>>)
          IN toSW' = SendSW(SendSW(toSW, started), done)]_vars

\* C24: with requirePhone set, a target on which no phone is recovered adds
\* no record while the cursor moves past it, and no stored or reported
\* result of such a job names a target without a phone
C24_RequirePhoneDropsRecord ==
  /\ [](\A p \in {progress, stProgress} :
          p.requirePhone =>
            \A i \in 1..Len(p.results) : visit[p.results[i]] # "no_phone")
  /\ [][(/\ pc = "dwell" /\ pc' \notin {"dwell", "init"}
         /\ progress.requirePhone /\ visit[here] = "no_phone")
          => /\ progress'.results = progress.results
             /\ progress'.index = progress.index + 1
             /\ stProgress' = progress']_vars

\* job 1 requires a phone, its target had none: the cursor is past the
\* target and the results are empty
C24_Witness ==
  /\ pc = "final_send"
  /\ progress.requirePhone
  /\ progress.index = 1
  /\ visit[progress.urls[1]] = "no_phone"
  /\ progress.results = <<>>
  /\ stProgress = progress

LostMessage == pc = "final_send" /\ pc' = "final_clear" /\ toSW' = toSW

BreakHonoured(hc, n, s) ==
  IF n % hc.longBreakAfter = 0
    THEN hc.longBreakMin <= s /\ s <= hc.longBreakMax
    ELSE (n % hc.breakAfterN = 0) => (hc.shortBreakMin <= s /\ s <= hc.shortBreakMax)

\* C27: the transition that follows a processed item is preceded by the break
\* its count calls for: a sleep within [shortBreakMin, shortBreakMax] after
\* every breakAfterN items, within [longBreakMin, longBreakMax] after every
\* longBreakAfter items
C27_BreaksBeforeTransition ==
  [][(pc = "go_back" /\ pc' = "back_fallback")
       => BreakHonoured(HumanizeOf(progress), progress.index,
                        SleepAfterStep(HumanizeOf(progress), progress.index))]_vars

\* clamp(x, lo, hi)
Clamp(x, lo, hi) == MinOf(hi, MaxOf(lo, x))

\* C28: on every word count and every configuration computeDwellMs returns
\* the reading time words / readingSpeedWpm * 60000 (to the millisecond)
\* clamped to [minPageDwell, maxPageDwell], and what it returns lies within
\* [minPageDwell, maxPageDwell]
C28_DwellIsClampedReadingTime ==
  (callResult.fn = "computeDwellMs" /\ ~callArgs.domThrows) =>
    LET hc == withHumanizeDefaults(callArgs.hc) IN
      /\ hc.readingSpeedWpm # 0 =>
            callResult.value = Clamp(Round(callArgs.words * MS_PER_MINUTE, hc.readingSpeedWpm),
                                     hc.minPageDwell, hc.maxPageDwell)
      /\ hc.minPageDwell <= callResult.value
      /\ callResult.value <= hc.maxPageDwell

\* with the limits in order, at least one second apart from zero, and a
\* reading speed above zero the function is that clamp
C28_ClampOnOrdinarySettings ==
  (callResult.fn = "computeDwellMs" /\ ~callArgs.domThrows) =>
    LET hc == withHumanizeDefaults(callArgs.hc) IN
      (hc.readingSpeedWpm # 0 /\ hc.minPageDwell >= MIN_DWELL_ESTIMATE
        /\ hc.minPageDwell <= hc.maxPageDwell) =>
      /\ callResult.value = Clamp(Round(callArgs.words * MS_PER_MINUTE, hc.readingSpeedWpm),
                                  hc.minPageDwell, hc.maxPageDwell)
      /\ hc.minPageDwell <= callResult.value
      /\ callResult.value <= hc.maxPageDwell

\* the call of the claim: the first selector matches nothing, the second
\* matches "  250.000 ", the transform is price
PriceCall ==
  /\ callResult.fn = "extractComplexField"
  /\ MatchesOfCall = <<NoElement, PriceText>>
  /\ callArgs.transform = "price"

\* C29: extraction over the candidate selectors takes the first non-empty
\* value and applies the transform to it; with the first selector matching
\* nothing and the second matching "  250.000 " the price transform yields
\* the number 250000
C29_PriceTransformYields250000 ==
  /\ callResult.fn = "extractComplexField" =>
        \/ /\ \A i \in 1..Len(MatchesOfCall) : Falsy(extractText(MatchesOfCall[i]))
           /\ callResult.value = Null
        \/ \E i \in 1..Len(MatchesOfCall) :
             /\ \A k \in 1..(i - 1) : Falsy(extractText(MatchesOfCall[k]))
             /\ ~Falsy(extractText(MatchesOfCall[i]))
             /\ callResult.value =
                  IF callArgs.transform = "none" THEN extractText(MatchesOfCall[i])
                  ELSE transformValue(extractText(MatchesOfCall[i]), callArgs.transform)
  /\ PriceCall => callResult.value = Num(250000, <<>>)

\* the first non-empty value is the one taken and transformed
C29_FirstNonEmptyIsTransformed ==
  callResult.fn = "extractComplexField" =>
    \/ /\ \A i \in 1..Len(MatchesOfCall) : Falsy(extractText(MatchesOfCall[i]))
       /\ callResult.value = Null
    \/ \E i \in 1..Len(MatchesOfCall) :
         /\ \A k \in 1..(i - 1) : Falsy(extractText(MatchesOfCall[k]))
         /\ ~Falsy(extractText(MatchesOfCall[i]))
         /\ callResult.value =
              IF callArgs.transform = "none" THEN extractText(MatchesOfCall[i])
              ELSE transformValue(extractText(MatchesOfCall[i]), callArgs.transform)

\* on the claim's call the price transform yields 250: the point is read as
\* a decimal point
C29_PriceTransformYields250 == PriceCall => callResult.value = Num(250, <<>>)

\* parsePrice, which the detail extraction uses, reads "  250.000 " as 250000
C29_ParsePriceYields250000 ==
  (callResult.fn = "parsePrice" /\ callArgs.text = PriceText)
    => callResult.value = Num(250000, <<>>)

\* job j is in the queue q with the status RUNNING
RunningIn(q, j) == \E i \in 1..Len(q) : q[i].id = j /\ q[i].status = "running"

\* the service worker holds job j as its current, RUNNING job while nothing of
\* it is with the content script: no execute message under way, no workflow
\* started or stored, no report on its way back
Undelivered(j) ==
  /\ undelivered = j
  /\ currentJob = j
  /\ RunningIn(jobQueue, j)
  /\ ExecMsg(j) \notin toCS
  /\ csJob # j
  /\ stProgress.jobId # j
  /\ progress.jobId # j
  /\ \A m \in toSW : m.job # j
  /\ apiResults[j] = 0

\* a tab update is handled while the service worker is not blocked and the
\* tab is at rest, ready to receive
HandlesTabUpdateOnReadyTab ==
  tabEvent /\ ~tabEvent' /\ ~isBlocked /\ currentState # "executing" /\ pendingNav = NoNav

\* C30: a job whose execute message was not delivered stays RUNNING and is
\* sent again when a later tab update finds a tab that can receive it
C30_UndeliveredJobIsRetried ==
  [][\A j \in Jobs :
       /\ (HandlesTabUpdateOnReadyTab /\ Undelivered(j)) => ExecMsg(j) \in toCS'
       /\ (currentJob = 0 /\ currentJob' = j /\ toCS' = toCS)
            => RunningIn(jobQueue', j)]_vars

\* the job whose execute message was not delivered is left RUNNING and current
C30_UndeliveredStaysRunning ==
  [][\A j \in Jobs :
       (currentJob = 0 /\ currentJob' = j /\ toCS' = toCS)
         => RunningIn(jobQueue', j)]_vars

\* C31: while the stored progress stays that of one job, its cursor never
\* decreases and its target queue never changes
C31_StoredProgressIsMonotone ==
  [][(stProgress.jobId # 0 /\ stProgress'.jobId = stProgress.jobId)
       => /\ stProgress'.index >= stProgress.index
          /\ stProgress'.urls = stProgress.urls]_vars

\* a JOB_COMPLETED or JOB_FAILED message for the current job is handled
HandlesOutcome(m) ==
  /\ m \in toSW
  /\ m.type \in {"JOB_COMPLETED", "JOB_FAILED"}
  /\ currentJob # 0
  /\ m.job = currentJob
  /\ toSW' = toSW \ {m}
  /\ restarted' = restarted
  /\ faults' = faults

\* C32: once the service worker has handled JOB_COMPLETED or JOB_FAILED for
\* the job it dispatched, jobManager.currentJob is null, also when the result
\* of that job id was already submitted
C32_OutcomeClearsCurrentJob ==
  [][\A m \in toSW : HandlesOutcome(m) => currentJob' = 0]_vars

\* -------------------------------------------------------------- progress
\* the steps the platform runs on its own: a content-script incarnation goes
\* on with its async functions, a requested page finishes loading
ContentSteps ==
  \/ InitCheck \/ ResumeLoad \/ Route \/ Extract \/ GoBack \/ BackFallback
  \/ AfterBack \/ NavCheck \/ NavGo \/ FinalSend \/ FinalClear
  \/ HandleExecuteJob \/ XNavCheck \/ XNavGo \/ XFinish \/ HandleCancelJob
  \/ PageLoad

\* chrome.runtime.onMessage and chrome.tabs.onUpdated call the service
\* worker's listeners for every message and tab event
WorkerHandlers ==
  \/ HandleTabUpdate \/ HandleJobStarted \/ HandleJobCompleted
  \/ HandleJobFailed \/ HandleBlockDetected

\* the program with its scheduling: the incarnation's steps and the listeners
\* are run, the polling alarm fires while it is set, and time passes
SpecLive ==
  /\ Init
  /\ [][Next]_vars
  /\ WF_vars(ContentSteps)
  /\ WF_vars(WorkerHandlers)
  /\ WF_vars(PollAlarm)
  /\ WF_vars(Tick)

PendingIn(q, j) == \E i \in 1..Len(q) : q[i].id = j /\ q[i].status = "pending"

\* a block is in force while the service worker holds a dispatched job and
\* job j waits in the queue
BlockInterrupts(j) ==
  /\ isBlocked
  /\ currentJob # 0
  /\ undelivered = 0
  /\ PendingIn(jobQueue, j)

Dispatched(j) == currentJob = j

\* C33: a block that interrupted a running job either lasts for ever or is
\* followed by the dispatch of the job that was waiting behind it
C33_BlockEndLeadsToDispatch ==
  \A j \in Jobs : BlockInterrupts(j) ~> (Dispatched(j) \/ []isBlocked)

\* ------------------------------------------------------ reset under a block
\* the popup's reset button is within reach while a block is shown: one reset
\* during a block, counted beyond the other disturbances
ResetWhileBlocked == isBlocked /\ faults = MaxFaults /\ faults' = faults + 1

ClearWhileBlocked == ClearLocal(ResetWhileBlocked)

NextBlock == Next \/ ClearWhileBlocked

SpecBlock == Init /\ [][NextBlock]_vars

\* C34: between the handlers of the service worker its in-memory blockedUntil
\* equals the stored blocked_until (0 when absent)
C34_BlockFlagAgreesWithStorage == blockedUntil = stBlockedUntil

\* the service worker handles the report of an incarnation that found the
\* stored block flag set, while its own flag is set too
HandlesObservedBlock(m) ==
  /\ m \in toSW
  /\ m.type = "BLOCK_DETECTED"
  /\ m.reason = "Global block"
  /\ isBlocked
  /\ toSW' = toSW \ {m}

\* C35: the report of an incarnation that merely observed the global block
\* leaves blockedUntil, in memory and in storage, as it was
C35_ObservedBlockLeavesFlag ==
  [][\A m \in toSW : HandlesObservedBlock(m)
       => /\ blockedUntil' = blockedUntil
          /\ stBlockedUntil' = stBlockedUntil]_vars

\* ------------------------------------------------- a poll in two steps
\* pollForJobs up to its await of fetchPendingJobs: the guards, then
\* setState(POLLING)
PollBegin ==
  /\ pollingAlarm
  /\ pollPc = "idle"
  /\ ~isBlocked
  /\ currentState = "idle"
  /\ pollPc' = "fetching"
  /\ currentState' = "polling"
  /\ UNCHANGED <<now, tabVars, flowVars, xVars, stProgress, stBlockedUntil,
                 stJobQueue, blockedUntil, currentJob, jobQueue,
                 submittedResults, pollingAlarm, apiResults, toSW, toCS, visit, submitting,
                 undelivered, failure, callArgs, callResult, collectIn,
                 collectOut, startTarget, recoveries, faults, restarted,
                 resumedClear>>

\* pollForJobs from the answer of fetchPendingJobs on: queueJobs,
\* tryExecuteNextJob, setState(IDLE)
PollEnd ==
  /\ pollPc = "fetching"
  /\ pollPc' = "idle"
  /\ \E fetched \in Fetched :
     LET r == PollEffect(jobQueue, currentJob, fetched) IN
       /\ jobQueue' = r.queue
       /\ stJobQueue' = r.stored
       /\ currentJob' = r.cur
       /\ toCS' = r.toCS
  /\ currentState' = "idle"
  /\ UNCHANGED <<now, tabVars, flowVars, xVars, stProgress, stBlockedUntil,
                 blockedUntil, submittedResults, pollingAlarm, apiResults, toSW,
                 visit, submitting, undelivered, failure, callArgs, callResult, collectIn,
                 collectOut, startTarget, recoveries, faults, restarted,
                 resumedClear>>

NextPoll == Next \/ PollBegin \/ PollEnd

SpecPoll == Init /\ [][NextPoll]_vars

\* an EXECUTE_JOB message is handed to the tab
SendsExecute == \E m \in toCS' \ toCS : m.type = "EXECUTE_JOB"

\* C36: no EXECUTE_JOB is sent while the service worker is blocked, also when
\* the block is raised while a poll is under way
C36_NoDispatchWhileBlocked == [][SendsExecute => ~isBlocked]_vars

\* ------------------------------------------ a completion in two steps
\* handleJobCompleted up to the await of apiClient.submitJobResult: the
\* duplicate filter, setState(IDLE), handleJobCompletion's guard
CompletedBegin ==
  \E m \in toSW :
    /\ m.type = "JOB_COMPLETED"
    /\ toSW' = toSW \ {m}
    /\ IF m.job \in submittedResults
         THEN UNCHANGED <<currentState, submittedResults, submitting>>
         ELSE /\ currentState' = "idle"
              /\ IF currentJob = 0 \/ currentJob # m.job
                   THEN /\ submittedResults' = submittedResults \cup {m.job}
                        /\ UNCHANGED submitting
                   ELSE /\ submitting' = [submitting EXCEPT ![m.job] = 1 + @]
                        /\ UNCHANGED submittedResults
    /\ UNCHANGED <<now, tabVars, flowVars, xVars, stProgress, stBlockedUntil,
                   stJobQueue, blockedUntil, currentJob, jobQueue, pollingAlarm,
                   apiResults, toCS, visit, pollPc, undelivered, failure,
                   callArgs, callResult, collectIn, collectOut, startTarget,
                   recoveries, faults, restarted, resumedClear>>

\* handleJobCompletion from the answer of the backend on (a failed request
\* is caught and handed to handleJobFailure), then submittedResults.add
CompletedEnd ==
  \E j \in Jobs, apiOk \in BOOLEAN :
    /\ submitting[j] > 0
    /\ submitting' = [submitting EXCEPT ![j] = @ - 1]
    /\ apiResults' = IF apiOk THEN [apiResults EXCEPT ![j] = 1 + @]
                     ELSE apiResults
    /\ IF apiOk \/ currentJob = j
         THEN /\ currentJob' = 0
              /\ jobQueue' = removeJobFromQueue(jobQueue, j)
              /\ stJobQueue' = removeJobFromQueue(jobQueue, j)
         ELSE UNCHANGED <<currentJob, jobQueue, stJobQueue>>
    /\ submittedResults' = submittedResults \cup {j}
    /\ UNCHANGED <<now, tabVars, flowVars, xVars, stProgress, stBlockedUntil,
                   blockedUntil, currentState, pollingAlarm, toSW, toCS, visit,
                   pollPc, undelivered, failure, callArgs, callResult,
                   collectIn, collectOut, startTarget, recoveries, faults,
                   restarted, resumedClear>>

NextSubmit == Next \/ CompletedBegin \/ CompletedEnd

SpecSubmit == Init /\ [][NextSubmit]_vars

\* C37: the backend receives the result of a job at most once
C37_SubmittedAtMostOnce == \A j \in Jobs : apiResults[j] <= 1

\* the service worker handles the first JOB_COMPLETED it gets for a job that
\* the stored queue holds as dispatched
HandlesFirstCompletion(m) ==
  /\ m \in toSW
  /\ m.type = "JOB_COMPLETED"
  /\ m.job \notin submittedResults
  /\ RunningIn(stJobQueue, m.job)
  /\ toSW' = toSW \ {m}

\* handleJobCompletion passes its guard and calls submitJobResult: the job is
\* taken from the queue, and the backend has the result unless the request
\* fails
Submits(m) ==
  /\ currentJob = m.job
  /\ currentJob' = 0
  /\ apiResults'[m.job] >= apiResults[m.job]

\* C38: a JOB_COMPLETED that the service worker handles for a job leads to the
\* submission of that job's result, also after a restart of the service worker
C38_CompletionIsSubmitted ==
  [][\A m \in toSW : HandlesFirstCompletion(m) => Submits(m)]_vars

\* ------------------------------------------------------- undisturbed runs
\* finalize calls chrome.storage.local.remove in the task that sends
\* JOB_COMPLETED: when the incarnation is not torn down, the removal is under
\* way before the service worker can answer with a new EXECUTE_JOB
ExecuteAfterFinalize == pc # "final_clear" /\ HandleExecuteJob

\* window.history.back() leads to the listing
BackToListing == GoBack /\ faults' = faults

\* the handlers and steps of a run in which no block is raised, nothing is
\* cancelled and every navigation lands where it was sent
NextQuiet ==
  \/ InitCheck \/ ResumeLoad \/ Route \/ Extract \/ BackToListing \/ BackFallback
  \/ AfterBack \/ NavCheck \/ NavGo \/ FinalSend \/ FinalClear
  \/ ExecuteAfterFinalize \/ XNavCheck \/ XNavGo \/ XFinish
  \/ PageLoad \/ Tick
  \/ PollAlarm \/ ForcePoll \/ HandleTabUpdate \/ HandleJobStarted
  \/ HandleJobCompleted

SpecQuiet ==
  /\ Init
  /\ [][NextQuiet]_vars
  /\ WF_vars(ContentSteps)
  /\ WF_vars(WorkerHandlers)
  /\ WF_vars(PollAlarm)
  /\ WF_vars(Tick)

\* a workflow for job j with targets is stored
Started(j) == stProgress.jobId = j /\ Len(stProgress.urls) > 0

\* an incarnation has sent JOB_COMPLETED for job j from the finished progress
Finalized(j) == pc = "final_clear" /\ progress.jobId = j

\* the incarnation on its expected target leaves the dwell
ProcessesTarget == pc = "dwell" /\ pc' # "dwell"

====
